---- MODULE Spec2Model ----
(***************************************************************************)
(* Model of the in-memory metadata store (MemDB) and of the DNS helper     *)
(* functions (package dns).                                                *)
(*                                                                         *)
(* MemDB keeps one Go map per entity kind, keyed by the concatenation of   *)
(* the identity fields, behind one sync.Mutex.  Every data operation is    *)
(* modelled as three steps of the calling goroutine: Lock (d.mlock.Lock),  *)
(* the operation body (one action per method, run while holding the        *)
(* mutex) and Unlock (the deferred d.mlock.Unlock).                        *)
(***************************************************************************)
EXTENDS Integers, Sequences, FiniteSets, TLC

VARIABLES
    devMap,      \* MemDB.devMap     : key -> Device
    svcMap,      \* MemDB.svcMap     : key -> Service
    svcAttrMap,  \* MemDB.svcAttrMap : key -> ServiceAttr
    volMap,      \* MemDB.volMap     : key -> Volume
    cfgMap,      \* MemDB.cfgMap     : key -> ConfigFile
    mlock,       \* MemDB.mlock      : TRUE when the mutex is locked
    pc,          \* per caller: "idle", "locked" (inside the body), "ret" (defer pending)
    last,        \* the most recent completed operation body: its arguments and results
    written,     \* history: per Device identity, the record last written and not yet deleted
    heap,        \* backing arrays of the Volume.Configs slices
    zones,       \* DNS provider: the hosted zones that exist
    records,     \* DNS provider: <<zone, dnsName>> -> address
    dnsLast,     \* the most recent RegisterDNSName call: arguments, provider calls, result
    call,        \* a call of a naming function: the function, its arguments, its result
    issued       \* per caller, the number of store operations it has called so far

storeVars == <<devMap, svcMap, svcAttrMap, volMap, cfgMap>>
dnsVars == <<zones, records, dnsLast>>
vars == <<devMap, svcMap, svcAttrMap, volMap, cfgMap, mlock, pc, last, written, heap,
          zones, records, dnsLast, call, issued>>

(***************************************************************************)
(* Callers and error values                                                *)
(***************************************************************************)
Callers == {"c1", "c2"}

ErrNil == "nil"
ErrDBConditionalCheckFailed == "ErrDBConditionalCheckFailed"
ErrDBRecordNotFound == "ErrDBRecordNotFound"

\* a nil *T returned together with an error
NilPtr == [ptr |-> "nil"]
\* no record (history variable only)
NoRecord == [none |-> TRUE]

(***************************************************************************)
(* Go map primitives                                                       *)
(***************************************************************************)
\* _, ok := m[key]
Has(m, key) == key \in DOMAIN m
\* m[key] = v
MapPut(m, key, v) == [k \in (DOMAIN m) \cup {key} |-> IF k = key THEN v ELSE m[k]]
\* delete(m, key)
MapDelete(m, key) == [k \in (DOMAIN m) \ {key} |-> m[k]]
\* map[string]T{}
EmptyMap == <<>>
\* the orders in which "for _, v := range m" may visit the keys of m
RangeOrders(m) ==
    {o \in [1..Cardinality(DOMAIN m) -> DOMAIN m] :
        \A i, j \in 1..Cardinality(DOMAIN m) : i # j => o[i] # o[j]}

(***************************************************************************)
(* Devices                                                                 *)
(***************************************************************************)
\* identities the callers use; ("ab","c") and ("a","bc") differ as tuples
DevIdents == {<<"ab", "c">>, <<"a", "bc">>, <<"a", "c">>}
ClusterNames == {"a", "ab"}
ServiceNames == {"s1", "s2"}
Devices ==
    {[ClusterName |-> i[1], DeviceName |-> i[2], ServiceName |-> s] :
        i \in DevIdents, s \in ServiceNames}

DevKey(clusterName, deviceName) == clusterName \o deviceName

copyDevice(t) ==
    [ClusterName |-> t.ClusterName,
     DeviceName  |-> t.DeviceName,
     ServiceName |-> t.ServiceName]

(***************************************************************************)
(* The mutex                                                               *)
(***************************************************************************)
Lock(p) ==
    /\ pc[p] = "idle"
    /\ mlock = FALSE
    /\ mlock' = TRUE
    /\ pc' = [pc EXCEPT ![p] = "locked"]
    /\ UNCHANGED <<storeVars, last, written, heap, dnsVars, call, issued>>

\* mutant of Unlock: the mutex is released on the successful return only
Unlock_NotOnError(p) ==
    /\ pc[p] = "ret"
    /\ last.err = ErrNil
    /\ mlock' = FALSE
    /\ pc' = [pc EXCEPT ![p] = "idle"]
    /\ UNCHANGED <<storeVars, last, written, heap, dnsVars, call, issued>>

Unlock(p) ==
    /\ pc[p] = "ret"
    /\ mlock' = FALSE
    /\ pc' = [pc EXCEPT ![p] = "idle"]
    /\ UNCHANGED <<storeVars, last, written, heap, dnsVars, call, issued>>

\* A caller that issues a bounded number of operations: it calls an
\* operation and reaches d.mlock.Lock(), where it waits while the mutex is
\* locked
MaxOps == 1
CallOp(p) ==
    /\ pc[p] = "idle"
    /\ issued[p] < MaxOps
    /\ pc' = [pc EXCEPT ![p] = "waiting"]
    /\ issued' = [issued EXCEPT ![p] = @ + 1]
    /\ UNCHANGED <<storeVars, mlock, last, written, heap, dnsVars, call>>

\* d.mlock.Lock() returns to a waiting caller
Acquire(p) ==
    /\ pc[p] = "waiting"
    /\ mlock = FALSE
    /\ mlock' = TRUE
    /\ pc' = [pc EXCEPT ![p] = "locked"]
    /\ UNCHANGED <<storeVars, last, written, heap, dnsVars, call, issued>>

\* the body has run to its return statement; the deferred Unlock is pending
Return(p, op, req, err, val) ==
    /\ pc' = [pc EXCEPT ![p] = "ret"]
    /\ last' = [op |-> op, req |-> req, err |-> err, val |-> val]
    /\ UNCHANGED <<mlock, dnsVars, call, issued>>

(***************************************************************************)
(* Device operations                                                       *)
(***************************************************************************)
CreateDevice(p) ==
    /\ pc[p] = "locked"
    /\ \E dev \in Devices :
        LET key == DevKey(dev.ClusterName, dev.DeviceName) IN
        IF Has(devMap, key)
        THEN /\ Return(p, "CreateDevice", dev, ErrDBConditionalCheckFailed, NilPtr)
             /\ UNCHANGED <<devMap, written>>
        ELSE /\ devMap' = MapPut(devMap, key, dev)
             /\ written' = [written EXCEPT ![<<dev.ClusterName, dev.DeviceName>>] = dev]
             /\ Return(p, "CreateDevice", dev, ErrNil, NilPtr)
    /\ UNCHANGED <<svcMap, svcAttrMap, volMap, cfgMap, heap>>

GetDevice(p) ==
    /\ pc[p] = "locked"
    /\ \E id \in DevIdents :
        LET key == DevKey(id[1], id[2]) IN
        IF ~Has(devMap, key)
        THEN Return(p, "GetDevice", id, ErrDBRecordNotFound, NilPtr)
        ELSE Return(p, "GetDevice", id, ErrNil, copyDevice(devMap[key]))
    /\ UNCHANGED <<storeVars, written, heap>>

DeleteDevice(p) ==
    /\ pc[p] = "locked"
    /\ \E id \in DevIdents :
        LET key == DevKey(id[1], id[2]) IN
        IF ~Has(devMap, key)
        THEN /\ Return(p, "DeleteDevice", id, ErrDBRecordNotFound, NilPtr)
             /\ UNCHANGED <<devMap, written>>
        ELSE /\ devMap' = MapDelete(devMap, key)
             /\ written' = [written EXCEPT ![id] = NoRecord]
             /\ Return(p, "DeleteDevice", id, ErrNil, NilPtr)
    /\ UNCHANGED <<svcMap, svcAttrMap, volMap, cfgMap, heap>>

\* ListDevices -> listDevicesWithLimit(clusterName, 0)
listDevicesWithLimit(p) ==
    /\ pc[p] = "locked"
    /\ \E clusterName \in ClusterNames, o \in RangeOrders(devMap) :
        Return(p, "ListDevices", clusterName, ErrNil,
               [idx \in 1..Cardinality(DOMAIN devMap) |-> copyDevice(devMap[o[idx]])])
    /\ UNCHANGED <<storeVars, written, heap>>

(***************************************************************************)
(* Services                                                                *)
(***************************************************************************)
SvcIdents == {<<"ab", "c">>, <<"a", "bc">>, <<"a", "c">>}
ServiceUUIDs == {"u", "uv"}
Services ==
    {[ClusterName |-> i[1], ServiceName |-> i[2], ServiceUUID |-> u] :
        i \in SvcIdents, u \in ServiceUUIDs}

SvcKey(clusterName, serviceName) == clusterName \o serviceName

copyService(t) ==
    [ClusterName |-> t.ClusterName,
     ServiceName |-> t.ServiceName,
     ServiceUUID |-> t.ServiceUUID]

CreateService(p) ==
    /\ pc[p] = "locked"
    /\ \E svc \in Services :
        LET key == SvcKey(svc.ClusterName, svc.ServiceName) IN
        IF Has(svcMap, key)
        THEN /\ Return(p, "CreateService", svc, ErrDBConditionalCheckFailed, NilPtr)
             /\ UNCHANGED svcMap
        ELSE /\ svcMap' = MapPut(svcMap, key, svc)
             /\ Return(p, "CreateService", svc, ErrNil, NilPtr)
    /\ UNCHANGED <<devMap, svcAttrMap, volMap, cfgMap, written, heap>>

GetService(p) ==
    /\ pc[p] = "locked"
    /\ \E id \in SvcIdents :
        LET key == SvcKey(id[1], id[2]) IN
        IF ~Has(svcMap, key)
        THEN Return(p, "GetService", id, ErrDBRecordNotFound, NilPtr)
        ELSE Return(p, "GetService", id, ErrNil, copyService(svcMap[key]))
    /\ UNCHANGED <<storeVars, written, heap>>

DeleteService(p) ==
    /\ pc[p] = "locked"
    /\ \E id \in SvcIdents :
        LET key == SvcKey(id[1], id[2]) IN
        IF ~Has(svcMap, key)
        THEN /\ Return(p, "DeleteService", id, ErrDBRecordNotFound, NilPtr)
             /\ UNCHANGED svcMap
        ELSE /\ svcMap' = MapDelete(svcMap, key)
             /\ Return(p, "DeleteService", id, ErrNil, NilPtr)
    /\ UNCHANGED <<devMap, svcAttrMap, volMap, cfgMap, written, heap>>

\* ListServices -> listServicesWithLimit(clusterName, 0)
listServicesWithLimit(p) ==
    /\ pc[p] = "locked"
    /\ \E clusterName \in ClusterNames, o \in RangeOrders(svcMap) :
        Return(p, "ListServices", clusterName, ErrNil,
               [idx \in 1..Cardinality(DOMAIN svcMap) |-> copyService(svcMap[o[idx]])])
    /\ UNCHANGED <<storeVars, written, heap>>

(***************************************************************************)
(* Service attributes                                                      *)
(***************************************************************************)
ServiceStatuses == {"CREATING", "ACTIVE"}
ServiceAttrs ==
    {[ServiceUUID         |-> u,
      ServiceStatus       |-> st,
      LastModified        |-> 0,
      Replicas            |-> 3,
      VolumeSizeGB        |-> 1,
      ClusterName         |-> "a",
      ServiceName         |-> "c",
      DeviceName          |-> "/dev/xvdf",
      HasStrictMembership |-> FALSE,
      DomainName          |-> "a-openmanage.com",
      HostedZoneID        |-> "z1"] :
        u \in ServiceUUIDs, st \in ServiceStatuses}

copyServiceAttr(t) ==
    [ServiceUUID         |-> t.ServiceUUID,
     ServiceStatus       |-> t.ServiceStatus,
     LastModified        |-> t.LastModified,
     Replicas            |-> t.Replicas,
     VolumeSizeGB        |-> t.VolumeSizeGB,
     ClusterName         |-> t.ClusterName,
     ServiceName         |-> t.ServiceName,
     DeviceName          |-> t.DeviceName,
     HasStrictMembership |-> t.HasStrictMembership,
     DomainName          |-> t.DomainName,
     HostedZoneID        |-> t.HostedZoneID]

CreateServiceAttr(p) ==
    /\ pc[p] = "locked"
    /\ \E attr \in ServiceAttrs :
        IF Has(svcAttrMap, attr.ServiceUUID)
        THEN /\ Return(p, "CreateServiceAttr", attr, ErrDBConditionalCheckFailed, NilPtr)
             /\ UNCHANGED svcAttrMap
        ELSE /\ svcAttrMap' = MapPut(svcAttrMap, attr.ServiceUUID, attr)
             /\ Return(p, "CreateServiceAttr", attr, ErrNil, NilPtr)
    /\ UNCHANGED <<devMap, svcMap, volMap, cfgMap, written, heap>>

UpdateServiceAttr(p) ==
    /\ pc[p] = "locked"
    /\ \E oldAttr \in ServiceAttrs, newAttr \in ServiceAttrs :
        LET req == [old |-> oldAttr, new |-> newAttr] IN
        IF ~Has(svcAttrMap, oldAttr.ServiceUUID)
        THEN /\ Return(p, "UpdateServiceAttr", req, ErrDBRecordNotFound, NilPtr)
             /\ UNCHANGED svcAttrMap
        ELSE /\ svcAttrMap' = MapPut(svcAttrMap, oldAttr.ServiceUUID, newAttr)
             /\ Return(p, "UpdateServiceAttr", req, ErrNil, NilPtr)
    /\ UNCHANGED <<devMap, svcMap, volMap, cfgMap, written, heap>>

GetServiceAttr(p) ==
    /\ pc[p] = "locked"
    /\ \E serviceUUID \in ServiceUUIDs :
        IF ~Has(svcAttrMap, serviceUUID)
        THEN Return(p, "GetServiceAttr", serviceUUID, ErrDBRecordNotFound, NilPtr)
        ELSE Return(p, "GetServiceAttr", serviceUUID, ErrNil,
                    copyServiceAttr(svcAttrMap[serviceUUID]))
    /\ UNCHANGED <<storeVars, written, heap>>

DeleteServiceAttr(p) ==
    /\ pc[p] = "locked"
    /\ \E serviceUUID \in ServiceUUIDs :
        IF ~Has(svcAttrMap, serviceUUID)
        THEN /\ Return(p, "DeleteServiceAttr", serviceUUID, ErrDBRecordNotFound, NilPtr)
             /\ UNCHANGED svcAttrMap
        ELSE /\ svcAttrMap' = MapDelete(svcAttrMap, serviceUUID)
             /\ Return(p, "DeleteServiceAttr", serviceUUID, ErrNil, NilPtr)
    /\ UNCHANGED <<devMap, svcMap, volMap, cfgMap, written, heap>>

(***************************************************************************)
(* Volumes.  Volume.Configs is a Go slice: a header (backing array,        *)
(* length) whose elements live in the backing array on the heap.           *)
(***************************************************************************)
MaxConfigs == 1

Addrs == {"A1"}
ConfigRefs == {"f1", "f2"}
NilSlice == [arr |-> "nil", len |-> 0]
Slices == {NilSlice} \cup {[arr |-> a, len |-> MaxConfigs] : a \in Addrs}
\* the elements a slice header gives access to
SliceElems(h, s) == [i \in 1..s.len |-> h[s.arr][i]]

VolIdents == {<<"u", "v1">>, <<"uv", "v1">>}
TaskIDs == {"t1", "t2"}
Volumes ==
    {[ServiceUUID         |-> i[1],
      VolumeID            |-> i[2],
      LastModified        |-> 0,
      DeviceName          |-> "/dev/xvdf",
      AvailableZone       |-> "az1",
      TaskID              |-> t,
      ContainerInstanceID |-> "ci1",
      ServerInstanceID    |-> "i1",
      MemberName          |-> "m1",
      Configs             |-> c] :
        i \in VolIdents, t \in TaskIDs, c \in Slices}

VolKey(serviceUUID, volumeID) == serviceUUID \o volumeID

copyVolume(t) ==
    [ServiceUUID         |-> t.ServiceUUID,
     VolumeID            |-> t.VolumeID,
     LastModified        |-> t.LastModified,
     DeviceName          |-> t.DeviceName,
     AvailableZone       |-> t.AvailableZone,
     TaskID              |-> t.TaskID,
     ContainerInstanceID |-> t.ContainerInstanceID,
     ServerInstanceID    |-> t.ServerInstanceID,
     MemberName          |-> t.MemberName,
     Configs             |-> t.Configs]

\* field-wise equality of two volumes; skipConfigs leaves the Configs list out
EqualVolume(t1, t2, skipConfigs) ==
    /\ t1.ServiceUUID = t2.ServiceUUID
    /\ t1.VolumeID = t2.VolumeID
    /\ t1.LastModified = t2.LastModified
    /\ t1.DeviceName = t2.DeviceName
    /\ t1.AvailableZone = t2.AvailableZone
    /\ t1.TaskID = t2.TaskID
    /\ t1.ContainerInstanceID = t2.ContainerInstanceID
    /\ t1.ServerInstanceID = t2.ServerInstanceID
    /\ t1.MemberName = t2.MemberName
    /\ (skipConfigs \/ SliceElems(heap, t1.Configs) = SliceElems(heap, t2.Configs))

CreateVolume(p) ==
    /\ pc[p] = "locked"
    /\ \E vol \in Volumes :
        LET key == VolKey(vol.ServiceUUID, vol.VolumeID) IN
        IF Has(volMap, key)
        THEN /\ Return(p, "CreateVolume", vol, ErrDBConditionalCheckFailed, NilPtr)
             /\ UNCHANGED volMap
        ELSE /\ volMap' = MapPut(volMap, key, vol)
             /\ Return(p, "CreateVolume", vol, ErrNil, NilPtr)
    /\ UNCHANGED <<devMap, svcMap, svcAttrMap, cfgMap, written, heap>>

\* mutant of UpdateVolume: the comparison of oldVol with the stored volume is
\* left out
UpdateVolume_NoCompare(p) ==
    /\ pc[p] = "locked"
    /\ \E oldVol \in Volumes, newVol \in Volumes :
        LET key == VolKey(oldVol.ServiceUUID, oldVol.VolumeID)
            req == [old |-> oldVol, new |-> newVol]
        IN
        IF ~Has(volMap, key)
        THEN /\ Return(p, "UpdateVolume", req, ErrDBRecordNotFound, NilPtr)
             /\ UNCHANGED volMap
        ELSE /\ volMap' = MapPut(volMap, key, newVol)
             /\ Return(p, "UpdateVolume", req, ErrNil, NilPtr)
    /\ UNCHANGED <<devMap, svcMap, svcAttrMap, cfgMap, written, heap>>

UpdateVolume(p) ==
    /\ pc[p] = "locked"
    /\ \E oldVol \in Volumes, newVol \in Volumes :
        LET key == VolKey(oldVol.ServiceUUID, oldVol.VolumeID)
            req == [old |-> oldVol, new |-> newVol]
        IN
        IF ~Has(volMap, key)
        THEN /\ Return(p, "UpdateVolume", req, ErrDBRecordNotFound, NilPtr)
             /\ UNCHANGED volMap
        ELSE IF ~EqualVolume(oldVol, volMap[key], TRUE)
        THEN /\ Return(p, "UpdateVolume", req, ErrDBConditionalCheckFailed, NilPtr)
             /\ UNCHANGED volMap
        ELSE /\ volMap' = MapPut(volMap, key, newVol)
             /\ Return(p, "UpdateVolume", req, ErrNil, NilPtr)
    /\ UNCHANGED <<devMap, svcMap, svcAttrMap, cfgMap, written, heap>>

GetVolume(p) ==
    /\ pc[p] = "locked"
    /\ \E id \in VolIdents :
        LET key == VolKey(id[1], id[2]) IN
        IF ~Has(volMap, key)
        THEN Return(p, "GetVolume", id, ErrDBRecordNotFound, NilPtr)
        ELSE Return(p, "GetVolume", id, ErrNil, copyVolume(volMap[key]))
    /\ UNCHANGED <<storeVars, written, heap>>

\* the loop of listVolumesWithLimit: visit the keys in the order o, appending
\* a copy of every volume of the service
RECURSIVE AppendVolumes(_, _, _)
AppendVolumes(o, serviceUUID, vols) ==
    IF o = <<>> THEN vols
    ELSE LET vol == volMap[Head(o)] IN
         AppendVolumes(Tail(o), serviceUUID,
                       IF vol.ServiceUUID = serviceUUID
                       THEN Append(vols, copyVolume(vol))
                       ELSE vols)

\* mutant of listVolumesWithLimit: every stored volume is returned, whatever
\* its service
listVolumesWithLimit_NoFilter(p) ==
    /\ pc[p] = "locked"
    /\ \E serviceUUID \in ServiceUUIDs, o \in RangeOrders(volMap) :
        Return(p, "ListVolumes", serviceUUID, ErrNil,
               [idx \in 1..Cardinality(DOMAIN volMap) |-> copyVolume(volMap[o[idx]])])
    /\ UNCHANGED <<storeVars, written, heap>>

\* ListVolumes -> listVolumesWithLimit(serviceUUID, 0)
listVolumesWithLimit(p) ==
    /\ pc[p] = "locked"
    /\ \E serviceUUID \in ServiceUUIDs, o \in RangeOrders(volMap) :
        Return(p, "ListVolumes", serviceUUID, ErrNil, AppendVolumes(o, serviceUUID, <<>>))
    /\ UNCHANGED <<storeVars, written, heap>>

DeleteVolume(p) ==
    /\ pc[p] = "locked"
    /\ \E id \in VolIdents :
        LET key == VolKey(id[1], id[2]) IN
        IF ~Has(volMap, key)
        THEN /\ Return(p, "DeleteVolume", id, ErrDBRecordNotFound, NilPtr)
             /\ UNCHANGED volMap
        ELSE /\ volMap' = MapDelete(volMap, key)
             /\ Return(p, "DeleteVolume", id, ErrNil, NilPtr)
    /\ UNCHANGED <<devMap, svcMap, svcAttrMap, cfgMap, written, heap>>

\* the Configs slices of the volumes the caller of the last operation holds:
\* the records it passed in and the records it got back
HeldSlices ==
    CASE last.op = "GetVolume" /\ last.err = ErrNil -> {last.val.Configs}
      [] last.op = "ListVolumes" -> {last.val[i].Configs : i \in 1..Len(last.val)}
      [] last.op = "CreateVolume" -> {last.req.Configs}
      [] last.op = "UpdateVolume" -> {last.req.old.Configs, last.req.new.Configs}
      [] OTHER -> {}

\* a caller, outside the store, assigns to an element of the Configs list of
\* a volume it holds: vol.Configs[i] = c
MutateConfigs(p) ==
    /\ pc[p] = "idle"
    /\ \E s \in HeldSlices : \E i \in 1..s.len : \E c \in ConfigRefs :
        /\ heap[s.arr][i] # c
        /\ heap' = [heap EXCEPT ![s.arr][i] = c]
    /\ UNCHANGED <<storeVars, mlock, pc, last, written, dnsVars, call, issued>>

(***************************************************************************)
(* Config files                                                            *)
(***************************************************************************)
CfgIdents == {<<"u", "v1">>, <<"uv", "1">>, <<"u", "v2">>}
Contents == {"x", "y"}
ConfigFiles ==
    {[FileID       |-> i[2],
      FileMD5      |-> "md5-" \o c,
      FileName     |-> "conf",
      FileMode     |-> 384,
      ServiceUUID  |-> i[1],
      LastModified |-> 0,
      Content      |-> c] :
        i \in CfgIdents, c \in Contents}

CfgKey(serviceUUID, fileID) == serviceUUID \o fileID

copyConfigFile(t) ==
    [FileID       |-> t.FileID,
     FileMD5      |-> t.FileMD5,
     FileName     |-> t.FileName,
     FileMode     |-> t.FileMode,
     ServiceUUID  |-> t.ServiceUUID,
     LastModified |-> t.LastModified,
     Content      |-> t.Content]

CreateConfigFile(p) ==
    /\ pc[p] = "locked"
    /\ \E cfg \in ConfigFiles :
        LET key == CfgKey(cfg.ServiceUUID, cfg.FileID) IN
        IF Has(cfgMap, key)
        THEN /\ Return(p, "CreateConfigFile", cfg, ErrDBConditionalCheckFailed, NilPtr)
             /\ UNCHANGED cfgMap
        ELSE /\ cfgMap' = MapPut(cfgMap, key, cfg)
             /\ Return(p, "CreateConfigFile", cfg, ErrNil, NilPtr)
    /\ UNCHANGED <<devMap, svcMap, svcAttrMap, volMap, written, heap>>

GetConfigFile(p) ==
    /\ pc[p] = "locked"
    /\ \E id \in CfgIdents :
        LET key == CfgKey(id[1], id[2]) IN
        IF ~Has(cfgMap, key)
        THEN Return(p, "GetConfigFile", id, ErrDBRecordNotFound, NilPtr)
        ELSE Return(p, "GetConfigFile", id, ErrNil, copyConfigFile(cfgMap[key]))
    /\ UNCHANGED <<storeVars, written, heap>>

DeleteConfigFile(p) ==
    /\ pc[p] = "locked"
    /\ \E id \in CfgIdents :
        LET key == CfgKey(id[1], id[2]) IN
        IF ~Has(cfgMap, key)
        THEN /\ Return(p, "DeleteConfigFile", id, ErrDBRecordNotFound, NilPtr)
             /\ UNCHANGED cfgMap
        ELSE /\ cfgMap' = MapDelete(cfgMap, key)
             /\ Return(p, "DeleteConfigFile", id, ErrNil, NilPtr)
    /\ UNCHANGED <<devMap, svcMap, svcAttrMap, volMap, written, heap>>

(***************************************************************************)
(* DNS names.  A Go string is modelled as the sequence of its characters.  *)
(***************************************************************************)
dnsNameSeparator == <<".">>

\* mutant of HasSuffix: the comparison starts one character late
HasSuffix_OffByOne(s, suffix) ==
    /\ Len(s) >= Len(suffix)
    /\ SubSeq(s, Len(s) - Len(suffix) + 2, Len(s)) = SubSeq(suffix, 2, Len(suffix))

\* strings.HasSuffix(s, suffix)
HasSuffix(s, suffix) ==
    /\ Len(s) >= Len(suffix)
    /\ SubSeq(s, Len(s) - Len(suffix) + 1, Len(s)) = suffix

\* "o.c", "x.c"
DomainNames == {<<"o", ".", "c">>, <<"x", ".", "c">>}
\* "p.o.c", "p.xo.c", "p.x.c", "o.c"
DNSNames ==
    {<<"p", ".", "o", ".", "c">>, <<"p", ".", "x", "o", ".", "c">>,
     <<"p", ".", "x", ".", "c">>, <<"o", ".", "c">>}

\* server.Info of the nodes that register names: two nodes of one VPC
Nodes ==
    {[vpcID |-> "vpc1", region |-> "r1", hostname |-> "h1"],
     [vpcID |-> "vpc1", region |-> "r1", hostname |-> "h2"]}
GetLocalVpcID(serverInfo) == serverInfo.vpcID
GetLocalRegion(serverInfo) == serverInfo.region
GetLocalHostname(serverInfo) == serverInfo.hostname

ErrDomainNotFound == "ErrDomainNotFound"
\* opaque errors of the DNS provider
ErrZone == "ErrZone"
ErrRecord == "ErrRecord"

\* DNS provider, zone get-or-create: the handle of the zone of
\* (domainName, vpcID, vpcRegion, private); the zone exists afterwards
HostedZoneID(domainName, vpcID, vpcRegion, private) ==
    <<domainName, vpcID, vpcRegion, private>>
GetOrCreateHostedZoneIDByName(zs, domainName, vpcID, vpcRegion, private) ==
    zs \cup {HostedZoneID(domainName, vpcID, vpcRegion, private)}
\* DNS provider, record upsert: dnsName -> hostname in the zone
UpdateServiceDNSRecord(rs, dnsName, hostname, hostedZoneID) ==
    MapPut(rs, <<hostedZoneID, dnsName>>, hostname)

\* the address the record of dnsName in the zone holds, "none" without one
RecordOf(rs, hostedZoneID, dnsName) ==
    IF Has(rs, <<hostedZoneID, dnsName>>) THEN rs[<<hostedZoneID, dnsName>>] ELSE "none"

\* mutant of RegisterDNSName: the record is pushed at the first registration
\* of dnsName only, a later call leaves the stored address alone
RegisterDNSName_FirstOnly(domainName, dnsName, serverInfo, zoneOk, recordOk) ==
    LET req == [domainName |-> domainName, dnsName |-> dnsName, serverInfo |-> serverInfo]
        private == TRUE
        vpcID == GetLocalVpcID(serverInfo)
        vpcRegion == GetLocalRegion(serverInfo)
        hostedZoneID == HostedZoneID(domainName, vpcID, vpcRegion, private)
        zoneCall == [fn |-> "GetOrCreateHostedZoneIDByName",
                     args |-> <<domainName, vpcID, vpcRegion, private>>,
                     id |-> IF zoneOk THEN hostedZoneID ELSE <<>>,
                     err |-> IF zoneOk THEN ErrNil ELSE ErrZone]
        hostname == GetLocalHostname(serverInfo)
        recordCall == [fn |-> "UpdateServiceDNSRecord",
                       args |-> <<dnsName, hostname, hostedZoneID>>,
                       err |-> IF recordOk THEN ErrNil ELSE ErrRecord]
        stale == RecordOf(records, hostedZoneID, dnsName)
    IN
    IF ~HasSuffix(dnsName, domainName)
    THEN /\ dnsLast' = [req |-> req, calls |-> <<>>, err |-> ErrDomainNotFound, stale |-> "none"]
         /\ UNCHANGED <<zones, records>>
    ELSE IF ~zoneOk
    THEN /\ dnsLast' = [req |-> req, calls |-> <<zoneCall>>, err |-> ErrZone, stale |-> "none"]
         /\ UNCHANGED <<zones, records>>
    ELSE /\ zones' = GetOrCreateHostedZoneIDByName(zones, domainName, vpcID, vpcRegion, private)
         /\ IF stale # "none"
            THEN /\ dnsLast' = [req |-> req, calls |-> <<zoneCall>>, err |-> ErrNil,
                                stale |-> stale]
                 /\ UNCHANGED records
            ELSE IF ~recordOk
            THEN /\ dnsLast' = [req |-> req, calls |-> <<zoneCall, recordCall>>,
                                err |-> ErrRecord, stale |-> stale]
                 /\ UNCHANGED records
            ELSE /\ dnsLast' = [req |-> req, calls |-> <<zoneCall, recordCall>>,
                                err |-> ErrNil, stale |-> stale]
                 /\ records' = UpdateServiceDNSRecord(records, dnsName, hostname, hostedZoneID)

\* mutant of RegisterDNSName: the error of the record upsert is not returned
RegisterDNSName_SwallowsError(domainName, dnsName, serverInfo, zoneOk, recordOk) ==
    LET req == [domainName |-> domainName, dnsName |-> dnsName, serverInfo |-> serverInfo]
        private == TRUE
        vpcID == GetLocalVpcID(serverInfo)
        vpcRegion == GetLocalRegion(serverInfo)
        hostedZoneID == HostedZoneID(domainName, vpcID, vpcRegion, private)
        zoneCall == [fn |-> "GetOrCreateHostedZoneIDByName",
                     args |-> <<domainName, vpcID, vpcRegion, private>>,
                     id |-> IF zoneOk THEN hostedZoneID ELSE <<>>,
                     err |-> IF zoneOk THEN ErrNil ELSE ErrZone]
        hostname == GetLocalHostname(serverInfo)
        recordCall == [fn |-> "UpdateServiceDNSRecord",
                       args |-> <<dnsName, hostname, hostedZoneID>>,
                       err |-> IF recordOk THEN ErrNil ELSE ErrRecord]
        stale == RecordOf(records, hostedZoneID, dnsName)
    IN
    IF ~HasSuffix(dnsName, domainName)
    THEN /\ dnsLast' = [req |-> req, calls |-> <<>>, err |-> ErrDomainNotFound, stale |-> "none"]
         /\ UNCHANGED <<zones, records>>
    ELSE IF ~zoneOk
    THEN /\ dnsLast' = [req |-> req, calls |-> <<zoneCall>>, err |-> ErrZone, stale |-> "none"]
         /\ UNCHANGED <<zones, records>>
    ELSE /\ zones' = GetOrCreateHostedZoneIDByName(zones, domainName, vpcID, vpcRegion, private)
         /\ dnsLast' = [req |-> req, calls |-> <<zoneCall, recordCall>>,
                        err |-> ErrNil, stale |-> stale]
         /\ IF ~recordOk
            THEN UNCHANGED records
            ELSE records' = UpdateServiceDNSRecord(records, dnsName, hostname, hostedZoneID)

\* RegisterDNSName(ctx, domainName, dnsName, serverInfo, dnsIns); zoneOk and
\* recordOk are the outcomes of the two provider calls, should they be made.
\* dnsLast logs the call: its arguments, the provider calls it made with
\* what each returned, its result and the address the record held when the
\* upsert was issued.
RegisterDNSName(domainName, dnsName, serverInfo, zoneOk, recordOk) ==
    LET req == [domainName |-> domainName, dnsName |-> dnsName, serverInfo |-> serverInfo]
        private == TRUE
        vpcID == GetLocalVpcID(serverInfo)
        vpcRegion == GetLocalRegion(serverInfo)
        hostedZoneID == HostedZoneID(domainName, vpcID, vpcRegion, private)
        zoneCall == [fn |-> "GetOrCreateHostedZoneIDByName",
                     args |-> <<domainName, vpcID, vpcRegion, private>>,
                     id |-> IF zoneOk THEN hostedZoneID ELSE <<>>,
                     err |-> IF zoneOk THEN ErrNil ELSE ErrZone]
        hostname == GetLocalHostname(serverInfo)
        recordCall == [fn |-> "UpdateServiceDNSRecord",
                       args |-> <<dnsName, hostname, hostedZoneID>>,
                       err |-> IF recordOk THEN ErrNil ELSE ErrRecord]
        stale == RecordOf(records, hostedZoneID, dnsName)
    IN
    IF ~HasSuffix(dnsName, domainName)
    THEN /\ dnsLast' = [req |-> req, calls |-> <<>>, err |-> ErrDomainNotFound, stale |-> "none"]
         /\ UNCHANGED <<zones, records>>
    ELSE IF ~zoneOk
    THEN /\ dnsLast' = [req |-> req, calls |-> <<zoneCall>>, err |-> ErrZone, stale |-> "none"]
         /\ UNCHANGED <<zones, records>>
    ELSE /\ zones' = GetOrCreateHostedZoneIDByName(zones, domainName, vpcID, vpcRegion, private)
         /\ IF ~recordOk
            THEN /\ dnsLast' = [req |-> req, calls |-> <<zoneCall, recordCall>>,
                                err |-> ErrRecord, stale |-> stale]
                 /\ UNCHANGED records
            ELSE /\ dnsLast' = [req |-> req, calls |-> <<zoneCall, recordCall>>,
                                err |-> ErrNil, stale |-> stale]
                 /\ records' = UpdateServiceDNSRecord(records, dnsName, hostname, hostedZoneID)

Register ==
    /\ \E domainName \in DomainNames, dnsName \in DNSNames, serverInfo \in Nodes,
          zoneOk \in BOOLEAN, recordOk \in BOOLEAN :
        RegisterDNSName(domainName, dnsName, serverInfo, zoneOk, recordOk)
    /\ UNCHANGED <<storeVars, mlock, pc, last, written, heap, call, issued>>

(***************************************************************************)
(* Naming functions.  A call is made in two steps: Init draws the function *)
(* and its arguments, the action of the function computes the result.      *)
(***************************************************************************)
\* strings.HasPrefix(s, prefix)
HasPrefix(s, prefix) ==
    /\ Len(s) >= Len(prefix)
    /\ SubSeq(s, 1, Len(prefix)) = prefix

\* the strings over chars of at most n characters
Strings(chars, n) == UNION {[1..k -> chars] : k \in 0..n}

FormatMgtServiceURL(surl, tlsEnabled) ==
    IF ~HasPrefix(surl, <<"h", "t", "t", "p">>)
    THEN IF tlsEnabled
         THEN <<"h", "t", "t", "p", "s", ":", "/", "/">> \o surl \o <<"/">>
         ELSE <<"h", "t", "t", "p", ":", "/", "/">> \o surl \o <<"/">>
    ELSE IF ~HasSuffix(surl, <<"/">>)
    THEN surl \o <<"/">>
    ELSE surl

\* the urls passed to FormatMgtServiceURL: nothing, "htt", "http", "http://"
\* or "https://", followed by at most MaxURLBody characters
MaxURLBody == 2
URLChars == {"a", "/"}
URLPrefixes ==
    {<<>>, <<"h", "t", "t">>, <<"h", "t", "t", "p">>,
     <<"h", "t", "t", "p", ":", "/", "/">>,
     <<"h", "t", "t", "p", "s", ":", "/", "/">>}
URLs == {pre \o body : pre \in URLPrefixes, body \in Strings(URLChars, MaxURLBody)}

NoCall == [fn |-> "none", args |-> <<>>, done |-> TRUE, res |-> <<>>]
FormatCalls ==
    {[fn |-> "FormatMgtServiceURL", args |-> <<surl, tlsEnabled>>, done |-> FALSE,
      res |-> <<>>] : surl \in URLs, tlsEnabled \in BOOLEAN}

CallFormatMgtServiceURL ==
    /\ call.fn = "FormatMgtServiceURL"
    /\ ~call.done
    /\ call' = [call EXCEPT !.done = TRUE,
                            !.res = FormatMgtServiceURL(call.args[1], call.args[2])]
    /\ UNCHANGED <<storeVars, mlock, pc, last, written, heap, dnsVars, issued>>

\* the places in s where sep starts
IndexesOf(s, sep) ==
    {i \in 1..(Len(s) - Len(sep) + 1) : SubSeq(s, i, i + Len(sep) - 1) = sep}
\* strings.Split(s, sep), sep not empty
RECURSIVE Split(_, _)
Split(s, sep) ==
    IF IndexesOf(s, sep) = {} THEN <<s>>
    ELSE LET i == CHOOSE j \in IndexesOf(s, sep) : \A k \in IndexesOf(s, sep) : j <= k IN
         <<SubSeq(s, 1, i - 1)>> \o Split(SubSeq(s, i + Len(sep), Len(s)), sep)

\* mutant of GetDomainNameFromDNSName: names of two labels are accepted
GetDomainNameFromDNSName_TwoLabels(dnsname) ==
    LET names == Split(dnsname, dnsNameSeparator)
        l == Len(names)
    IN
    IF Len(names) < 2
    THEN [domain |-> <<>>, err |-> ErrDomainNotFound]
    ELSE [domain |-> names[l - 1] \o dnsNameSeparator \o names[l], err |-> ErrNil]

GetDomainNameFromDNSName(dnsname) ==
    LET names == Split(dnsname, dnsNameSeparator)
        l == Len(names)
    IN
    IF Len(names) < 3
    THEN [domain |-> <<>>, err |-> ErrDomainNotFound]
    ELSE [domain |-> names[l - 1] \o dnsNameSeparator \o names[l], err |-> ErrNil]

\* the dnsnames passed to GetDomainNameFromDNSName
MaxNameLen == 5
NameChars == {"a", "b", "."}
DomainFromDNSNameCalls ==
    {[fn |-> "GetDomainNameFromDNSName", args |-> <<dnsname>>, done |-> FALSE,
      res |-> <<>>] : dnsname \in Strings(NameChars, MaxNameLen)}

CallGetDomainNameFromDNSName ==
    /\ call.fn = "GetDomainNameFromDNSName"
    /\ ~call.done
    /\ call' = [call EXCEPT !.done = TRUE, !.res = GetDomainNameFromDNSName(call.args[1])]
    /\ UNCHANGED <<storeVars, mlock, pc, last, written, heap, dnsVars, issued>>

\* common.NameSeparator, common.DomainNameSuffix, common.DomainSeparator and
\* common.DomainCom: "-", "openmanage", "." and "com"
NameSeparator == <<"-">>
DomainNameSuffix == <<"o", "p", "e", "n", "m", "a", "n", "a", "g", "e">>
DomainSeparator == <<".">>
DomainCom == <<"c", "o", "m">>

\* mutant of GenDNSName: the separator is left out
GenDNSName_NoSeparator(svcMemberName, domainName) ==
    svcMemberName \o domainName

GenDNSName(svcMemberName, domainName) ==
    svcMemberName \o dnsNameSeparator \o domainName

GenDefaultDomainName(clusterName) ==
    clusterName \o NameSeparator \o DomainNameSuffix \o DomainSeparator \o DomainCom

\* the cluster and member names the names are generated from
MaxLabelLen == 2
LabelChars == {"a", "-", "."}
GenNameCalls ==
    {[fn |-> "GenDNSName", args |-> <<svcMemberName, clusterName>>, done |-> FALSE,
      res |-> <<>>] :
        svcMemberName \in Strings(LabelChars, MaxLabelLen),
        clusterName \in Strings(LabelChars, MaxLabelLen)}

\* a node names a member of a cluster and registers the name: the domain
\* from GenDefaultDomainName, the DNS name from GenDNSName, the domain read
\* back by GetDomainNameFromDNSName, then RegisterDNSName
CallGenDNSName ==
    /\ call.fn = "GenDNSName"
    /\ ~call.done
    /\ LET domainName == GenDefaultDomainName(call.args[2])
           dnsName == GenDNSName(call.args[1], domainName)
       IN
       /\ call' = [call EXCEPT !.done = TRUE,
                               !.res = [domainName |-> domainName,
                                        dnsName |-> dnsName,
                                        extracted |-> GetDomainNameFromDNSName(dnsName)]]
       /\ \E serverInfo \in Nodes, zoneOk \in BOOLEAN, recordOk \in BOOLEAN :
            RegisterDNSName(domainName, dnsName, serverInfo, zoneOk, recordOk)
    /\ UNCHANGED <<storeVars, mlock, pc, last, written, heap, issued>>

(***************************************************************************)
(* Initial state: NewMemDB, no caller inside an operation                  *)
(***************************************************************************)
NoOp == [op |-> "none", req |-> NilPtr, err |-> ErrNil, val |-> NilPtr]

InitProgram ==
    /\ devMap = EmptyMap
    /\ svcMap = EmptyMap
    /\ svcAttrMap = EmptyMap
    /\ volMap = EmptyMap
    /\ cfgMap = EmptyMap
    /\ mlock = FALSE
    /\ pc = [p \in Callers |-> "idle"]
    /\ last = NoOp
    /\ written = [i \in DevIdents |-> NoRecord]
    /\ zones = {}
    /\ records = EmptyMap
    /\ dnsLast = [req |-> NilPtr, calls |-> <<>>, err |-> ErrNil, stale |-> "none"]
    /\ heap = [a \in Addrs |-> [i \in 1..MaxConfigs |-> "f1"]]
    /\ issued = [p \in Callers |-> 0]

Init == InitProgram /\ call = NoCall

NextDev ==
    \E p \in Callers :
        \/ Lock(p)
        \/ Unlock(p)
        \/ CreateDevice(p)
        \/ GetDevice(p)
        \/ DeleteDevice(p)
        \/ listDevicesWithLimit(p)

SpecDev == Init /\ [][NextDev]_vars

NextSvc ==
    \E p \in Callers :
        \/ Lock(p)
        \/ Unlock(p)
        \/ CreateService(p)
        \/ GetService(p)
        \/ DeleteService(p)
        \/ listServicesWithLimit(p)

SpecSvc == Init /\ [][NextSvc]_vars

NextAttr ==
    \E p \in Callers :
        \/ Lock(p)
        \/ Unlock(p)
        \/ CreateServiceAttr(p)
        \/ UpdateServiceAttr(p)
        \/ GetServiceAttr(p)
        \/ DeleteServiceAttr(p)

SpecAttr == Init /\ [][NextAttr]_vars

NextVol ==
    \E p \in Callers :
        \/ Lock(p)
        \/ Unlock(p)
        \/ CreateVolume(p)
        \/ UpdateVolume(p)
        \/ GetVolume(p)
        \/ listVolumesWithLimit(p)
        \/ DeleteVolume(p)
        \/ MutateConfigs(p)

SpecVol == Init /\ [][NextVol]_vars

NextCfg ==
    \E p \in Callers :
        \/ Lock(p)
        \/ Unlock(p)
        \/ CreateConfigFile(p)
        \/ GetConfigFile(p)
        \/ DeleteConfigFile(p)

SpecCfg == Init /\ [][NextCfg]_vars

NextDNS == Register

SpecDNS == Init /\ [][NextDNS]_vars

\* the body of a volume operation, run by p between Acquire and Unlock
VolumeBody(p) ==
    \/ CreateVolume(p)
    \/ UpdateVolume(p)
    \/ GetVolume(p)
    \/ listVolumesWithLimit(p)
    \/ DeleteVolume(p)

NextLock ==
    \E p \in Callers :
        \/ CallOp(p)
        \/ Acquire(p)
        \/ VolumeBody(p)
        \/ Unlock(p)

\* the scheduler runs every goroutine that can run, and the mutex is handed
\* to a goroutine that waits for it once it stays unlocked
FairLock ==
    \A p \in Callers :
        /\ WF_vars(Acquire(p))
        /\ WF_vars(VolumeBody(p))
        /\ WF_vars(Unlock(p))

SpecLock == Init /\ [][NextLock]_vars /\ FairLock

NameCalls == FormatCalls \cup DomainFromDNSNameCalls \cup GenNameCalls

InitNames == InitProgram /\ call \in NameCalls

NextNames ==
    \/ CallFormatMgtServiceURL
    \/ CallGetDomainNameFromDNSName
    \/ CallGenDNSName

SpecNames == InitNames /\ [][NextNames]_vars

(***************************************************************************)
(* Properties                                                              *)
(***************************************************************************)
\* caller p runs the body of operation op in this step
BodyStep(p, op) == pc[p] = "locked" /\ pc'[p] = "ret" /\ last'.op = op
\* the operation described by last has returned a result that is still
\* current: its caller has not released the mutex yet
AtReturn(op) == last.op = op /\ \E p \in Callers : pc[p] = "ret"

\* the keys under which m holds a device of the identity id
StoredDevices(m, id) ==
    {k \in DOMAIN m : m[k].ClusterName = id[1] /\ m[k].DeviceName = id[2]}
\* the keys under which m holds a config file of the identity id
StoredConfigFiles(m, id) ==
    {k \in DOMAIN m : m[k].ServiceUUID = id[1] /\ m[k].FileID = id[2]}

\* C1: UpdateServiceAttr(oldAttr, newAttr) on a stored ServiceUUID succeeds
\* iff the stored ServiceAttr equals oldAttr; otherwise it fails with
\* ConditionalCheckFailed and leaves the stored value unchanged.  So an
\* UpdateServiceAttr that directly follows a successful UpdateServiceAttr
\* with the same oldAttr and a different newAttr fails.
C1_UpdateServiceAttrCompareAndSwap ==
    [][\A p \in Callers :
        (BodyStep(p, "UpdateServiceAttr") /\ Has(svcAttrMap, last'.req.old.ServiceUUID)) =>
            LET oldAttr == last'.req.old
                newAttr == last'.req.new
            IN
            IF svcAttrMap[oldAttr.ServiceUUID] = oldAttr
            THEN /\ last'.err = ErrNil
                 /\ svcAttrMap' = MapPut(svcAttrMap, oldAttr.ServiceUUID, newAttr)
            ELSE /\ last'.err = ErrDBConditionalCheckFailed
                 /\ svcAttrMap' = svcAttrMap
      ]_vars

C3_CreateIffIdentityAbsent ==
    [][\A p \in Callers :
        BodyStep(p, "CreateDevice") =>
            LET dev == last'.req
                id == <<dev.ClusterName, dev.DeviceName>>
            IN
            IF StoredDevices(devMap, id) = {}
            THEN /\ last'.err = ErrNil
                 /\ \E k \in StoredDevices(devMap', id) : devMap'[k] = dev
            ELSE /\ last'.err = ErrDBConditionalCheckFailed
                 /\ devMap' = devMap
      ]_vars

\* C4: of the CreateDevice calls for one identity exactly one wins: a call
\* succeeds iff no earlier call for that identity has won since the identity
\* was last deleted, every other call returns ConditionalCheckFailed, and the
\* device stays stored with the winner's ServiceName until DeleteDevice of
\* that identity.
C4_OneCreateWinner ==
    [][/\ \A p \in Callers :
            BodyStep(p, "CreateDevice") =>
                LET dev == last'.req
                    id == <<dev.ClusterName, dev.DeviceName>>
                IN
                IF written[id] = NoRecord
                THEN last'.err = ErrNil /\ written'[id] = dev
                ELSE last'.err = ErrDBConditionalCheckFailed /\ written'[id] = written[id]
       /\ \A id \in DevIdents :
            written'[id] # NoRecord =>
                \E k \in StoredDevices(devMap', id) :
                    devMap'[k].ServiceName = written'[id].ServiceName
      ]_vars

\* C5: ListDevices(clusterName) returns exactly the stored devices whose
\* ClusterName is clusterName, each once.
C5_ListDevicesExact ==
    AtReturn("ListDevices") =>
        LET match == {k \in DOMAIN devMap : devMap[k].ClusterName = last.req} IN
        /\ last.err = ErrNil
        /\ Len(last.val) = Cardinality(match)
        /\ {last.val[i] : i \in 1..Len(last.val)} = {devMap[k] : k \in match}

DeepVolume(h, v) == [v EXCEPT !.Configs = SliceElems(h, v.Configs)]

\* C7: copy isolation: as long as no store operation changes volMap, what
\* GetVolume returns (the fields and the elements of Configs) stays the same,
\* whatever the callers do to the records they passed in or got back.
C7_CopyIsolation ==
    [][volMap' = volMap =>
        \A k \in DOMAIN volMap :
            DeepVolume(heap', copyVolume(volMap'[k])) = DeepVolume(heap, copyVolume(volMap[k]))
      ]_vars

\* C8: GetConfigFile and DeleteConfigFile on an identity of which no record
\* is stored return RecordNotFound; after a successful DeleteConfigFile no
\* record of the identity is stored, so a following Get or Delete returns
\* RecordNotFound and a following Create succeeds.
C8_AbsentIsRecordNotFound ==
    [][\A p \in Callers :
        /\ BodyStep(p, "GetConfigFile") =>
            (StoredConfigFiles(cfgMap, last'.req) = {} => last'.err = ErrDBRecordNotFound)
        /\ BodyStep(p, "DeleteConfigFile") =>
            /\ StoredConfigFiles(cfgMap, last'.req) = {} => last'.err = ErrDBRecordNotFound
            /\ last'.err = ErrNil =>
                /\ StoredConfigFiles(cfgMap', last'.req) = {}
                /\ ~Has(cfgMap', CfgKey(last'.req[1], last'.req[2]))
      ]_vars

\* C9: a GetDevice that follows a successful CreateDevice of the same
\* identity, with no DeleteDevice of that identity in between, returns the
\* written record, equal in every field, and never RecordNotFound.
C9_GetReturnsLastWrite ==
    [][\A p \in Callers :
        BodyStep(p, "GetDevice") =>
            (written[last'.req] # NoRecord =>
                last'.err = ErrNil /\ last'.val = written[last'.req])
      ]_vars

\* dnsName is some prefix followed by domainName
EndsWith(dnsName, domainName) ==
    \E n \in 0..Len(dnsName) : dnsName = SubSeq(dnsName, 1, n) \o domainName

\* C10: a RegisterDNSName whose dnsName does not end with domainName returns
\* DomainNotFound, makes no call to the DNS provider and leaves the
\* provider's zones and records unchanged.
C10_DomainNotFoundWithoutProviderCall ==
    [][~EndsWith(dnsLast'.req.dnsName, dnsLast'.req.domainName) =>
        /\ dnsLast'.err = ErrDomainNotFound
        /\ dnsLast'.calls = <<>>
        /\ zones' = zones
        /\ records' = records
      ]_vars

\* C10 witness: the provider holds a zone and a record, and a registration
\* of a name outside the domain has just been refused.
C10_Witness ==
    /\ dnsLast.err = ErrDomainNotFound
    /\ ~EndsWith(dnsLast.req.dnsName, dnsLast.req.domainName)
    /\ zones # {}
    /\ records # EmptyMap

\* the zones of a domain in a network (VPC) of a region
ZonesOf(zs, domainName, vpcID, vpcRegion) ==
    {z \in zs : z[1] = domainName /\ z[2] = vpcID /\ z[3] = vpcRegion}

\* C11: with an idempotent provider, a successful RegisterDNSName leaves
\* exactly one zone for (domainName, VPC, region), the zones being the ones
\* there were plus at most that one, and the record of dnsName in that zone
\* pointing to the hostname of the calling node, whatever address it held
\* before, every other record being untouched; a successful call that
\* directly repeats a successful call with the same arguments changes
\* neither the zones nor the records.
C11_RegisterIdempotentOverwrite ==
    [][dnsLast'.err = ErrNil =>
        LET req == dnsLast'.req
            vpcID == GetLocalVpcID(req.serverInfo)
            vpcRegion == GetLocalRegion(req.serverInfo)
            zone == HostedZoneID(req.domainName, vpcID, vpcRegion, TRUE)
        IN
        /\ zones' = zones \cup {zone}
        /\ ZonesOf(zones', req.domainName, vpcID, vpcRegion) = {zone}
        /\ records' = MapPut(records, <<zone, req.dnsName>>, GetLocalHostname(req.serverInfo))
        /\ ((dnsLast.err = ErrNil /\ dnsLast.req = req) =>
                zones' = zones /\ records' = records)
      ]_vars

\* C11 witness: a successful registration from one node has replaced the
\* address another node had registered for the same name.
C11_Witness ==
    /\ dnsLast.err = ErrNil
    /\ dnsLast.req # NilPtr
    /\ dnsLast.stale \notin {"none", GetLocalHostname(dnsLast.req.serverInfo)}
    /\ RecordOf(records,
                HostedZoneID(dnsLast.req.domainName, GetLocalVpcID(dnsLast.req.serverInfo),
                             GetLocalRegion(dnsLast.req.serverInfo), TRUE),
                dnsLast.req.dnsName) = GetLocalHostname(dnsLast.req.serverInfo)

\* the number of "/" at the end of s
RECURSIVE TrailingSlashes(_)
TrailingSlashes(s) ==
    IF s # <<>> /\ s[Len(s)] = "/"
    THEN 1 + TrailingSlashes(SubSeq(s, 1, Len(s) - 1))
    ELSE 0
\* s without the "/" at its end
TrimSlashes(s) == SubSeq(s, 1, Len(s) - TrailingSlashes(s))

\* C12: FormatMgtServiceURL(surl, tlsEnabled) ends with one "/" and no more,
\* for every surl; before that "/" it is surl, after "https://" or "http://"
\* (by tlsEnabled) when surl does not start with "http", as it is otherwise.
C12_FormatExactlyOneTrailingSlash ==
    (call.fn = "FormatMgtServiceURL" /\ call.done) =>
        LET surl == call.args[1]
            tlsEnabled == call.args[2]
            url == IF HasPrefix(surl, <<"h", "t", "t", "p">>) THEN surl
                   ELSE IF tlsEnabled
                   THEN <<"h", "t", "t", "p", "s", ":", "/", "/">> \o surl
                   ELSE <<"h", "t", "t", "p", ":", "/", "/">> \o surl
        IN
        /\ TrailingSlashes(call.res) = 1
        /\ TrimSlashes(call.res) = TrimSlashes(url)

\* the places of the "." in s
Dots(s) == {i \in 1..Len(s) : s[i] = "."}

\* C13: GetDomainNameFromDNSName(dnsname) returns DomainNotFound, with an
\* empty domain, iff dnsname has fewer than 3 labels, that is fewer than two
\* "."; otherwise it returns, with a nil error, the last two labels joined by
\* ".", that is what follows the last but one ".".
C13_DomainIsLastTwoLabels ==
    (call.fn = "GetDomainNameFromDNSName" /\ call.done) =>
        LET dnsname == call.args[1] IN
        IF Cardinality(Dots(dnsname)) < 2
        THEN call.res = [domain |-> <<>>, err |-> ErrDomainNotFound]
        ELSE LET d == CHOOSE i \in Dots(dnsname) :
                        Cardinality({j \in Dots(dnsname) : j > i}) = 1
             IN call.res = [domain |-> SubSeq(dnsname, d + 1, Len(dnsname)), err |-> ErrNil]

\* C13 witness: a name of four labels has given its last two labels, and
\* these are not empty.
C13_Witness ==
    /\ call.fn = "GetDomainNameFromDNSName"
    /\ call.done
    /\ Cardinality(Dots(call.args[1])) = 3
    /\ call.res.err = ErrNil
    /\ Cardinality(Dots(call.res.domain)) = 1
    /\ Len(call.res.domain) = 3

\* the keys under which m holds a ServiceAttr of the identity serviceUUID
StoredServiceAttrs(m, serviceUUID) ==
    {k \in DOMAIN m : m[k].ServiceUUID = serviceUUID}
\* the keys under which m holds a volume of the identity id
StoredVolumes(m, id) ==
    {k \in DOMAIN m : m[k].ServiceUUID = id[1] /\ m[k].VolumeID = id[2]}

\* C14: UpdateServiceAttr and UpdateVolume whose old record has an identity
\* of which no record is stored return RecordNotFound (not
\* ConditionalCheckFailed, whatever the other fields of the old record) and
\* store nothing: the map is unchanged and the identity is still absent.
C14_UpdateAbsentIsRecordNotFound ==
    [][\A p \in Callers :
        /\ (BodyStep(p, "UpdateServiceAttr")
                /\ StoredServiceAttrs(svcAttrMap, last'.req.old.ServiceUUID) = {}) =>
            /\ last'.err = ErrDBRecordNotFound
            /\ svcAttrMap' = svcAttrMap
            /\ StoredServiceAttrs(svcAttrMap', last'.req.old.ServiceUUID) = {}
        /\ (BodyStep(p, "UpdateVolume")
                /\ StoredVolumes(volMap, <<last'.req.old.ServiceUUID,
                                           last'.req.old.VolumeID>>) = {}) =>
            /\ last'.err = ErrDBRecordNotFound
            /\ volMap' = volMap
            /\ StoredVolumes(volMap', <<last'.req.old.ServiceUUID,
                                        last'.req.old.VolumeID>>) = {}
      ]_vars

\* C15: a RegisterDNSName that gets past the suffix check first asks the
\* provider for the zone of (domainName, local VPC, local region, private =
\* TRUE); if that call fails its error is returned and no upsert is issued
\* (the records stay as they were); if it succeeds the upsert of dnsName ->
\* local hostname is issued next, into the zone handle the first call
\* returned, and its error, or nil, is returned.  So nil is returned only
\* when both provider calls succeeded.
C15_ZoneThenRecordErrorsPropagate ==
    [][dnsLast'.err # ErrDomainNotFound =>
        LET req == dnsLast'.req
            calls == dnsLast'.calls
        IN
        /\ Len(calls) >= 1
        /\ calls[1].fn = "GetOrCreateHostedZoneIDByName"
        /\ calls[1].args = <<req.domainName, GetLocalVpcID(req.serverInfo),
                             GetLocalRegion(req.serverInfo), TRUE>>
        /\ IF calls[1].err # ErrNil
           THEN /\ Len(calls) = 1
                /\ dnsLast'.err = calls[1].err
                /\ records' = records
           ELSE /\ Len(calls) = 2
                /\ calls[2].fn = "UpdateServiceDNSRecord"
                /\ calls[2].args = <<req.dnsName, GetLocalHostname(req.serverInfo), calls[1].id>>
                /\ dnsLast'.err = calls[2].err
        /\ (dnsLast'.err = ErrNil <=> \A i \in 1..Len(calls) : calls[i].err = ErrNil)
      ]_vars

\* C15 witness: the zone was resolved, the upsert into it failed, and the
\* error of the upsert has been returned.
C15_Witness ==
    /\ dnsLast.err = ErrRecord
    /\ Len(dnsLast.calls) = 2
    /\ dnsLast.calls[1].err = ErrNil
    /\ dnsLast.calls[1].id \in zones
    /\ dnsLast.calls[2].err = ErrRecord

\* the identity fields of a record of each kind
DeviceIdentity(r) == <<r.ClusterName, r.DeviceName>>
ServiceIdentity(r) == <<r.ClusterName, r.ServiceName>>
ServiceAttrIdentity(r) == r.ServiceUUID
VolumeIdentity(r) == <<r.ServiceUUID, r.VolumeID>>
ConfigFileIdentity(r) == <<r.ServiceUUID, r.FileID>>
\* from the map m to the map n, the records of every identity but id have
\* stayed as and where they were, and none has appeared
OthersKept(m, n, Identity(_), id) ==
    /\ \A k \in DOMAIN m : Identity(m[k]) # id => (Has(n, k) /\ n[k] = m[k])
    /\ \A k \in DOMAIN n : Identity(n[k]) # id => (Has(m, k) /\ m[k] = n[k])

\* C16: a store operation that returns an error, and every Get and List,
\* leaves the five maps as they were; a successful Create, Update or Delete
\* leaves the maps of the other kinds as they were and, in the map of its
\* kind, every record of an identity other than the one it was called with.
C16_FrameEffect ==
    [][\A p \in Callers :
        (pc[p] = "locked" /\ pc'[p] = "ret") =>
            LET op == last'.op
                req == last'.req
            IN
            /\ last'.err # ErrNil => storeVars' = storeVars
            /\ op \in {"GetDevice", "ListDevices", "GetService", "ListServices",
                       "GetServiceAttr", "GetVolume", "ListVolumes", "GetConfigFile"} =>
                    storeVars' = storeVars
            /\ op \in {"CreateDevice", "DeleteDevice"} =>
                /\ <<svcMap, svcAttrMap, volMap, cfgMap>>' = <<svcMap, svcAttrMap, volMap, cfgMap>>
                /\ OthersKept(devMap, devMap', DeviceIdentity,
                              IF op = "CreateDevice" THEN DeviceIdentity(req) ELSE req)
            /\ op \in {"CreateService", "DeleteService"} =>
                /\ <<devMap, svcAttrMap, volMap, cfgMap>>' = <<devMap, svcAttrMap, volMap, cfgMap>>
                /\ OthersKept(svcMap, svcMap', ServiceIdentity,
                              IF op = "CreateService" THEN ServiceIdentity(req) ELSE req)
            /\ op \in {"CreateServiceAttr", "UpdateServiceAttr", "DeleteServiceAttr"} =>
                /\ <<devMap, svcMap, volMap, cfgMap>>' = <<devMap, svcMap, volMap, cfgMap>>
                /\ OthersKept(svcAttrMap, svcAttrMap', ServiceAttrIdentity,
                              CASE op = "CreateServiceAttr" -> ServiceAttrIdentity(req)
                                [] op = "UpdateServiceAttr" -> ServiceAttrIdentity(req.old)
                                [] OTHER -> req)
            /\ op \in {"CreateVolume", "UpdateVolume", "DeleteVolume"} =>
                /\ <<devMap, svcMap, svcAttrMap, cfgMap>>' = <<devMap, svcMap, svcAttrMap, cfgMap>>
                /\ OthersKept(volMap, volMap', VolumeIdentity,
                              CASE op = "CreateVolume" -> VolumeIdentity(req)
                                [] op = "UpdateVolume" -> VolumeIdentity(req.old)
                                [] OTHER -> req)
            /\ op \in {"CreateConfigFile", "DeleteConfigFile"} =>
                /\ <<devMap, svcMap, svcAttrMap, volMap>>' = <<devMap, svcMap, svcAttrMap, volMap>>
                /\ OthersKept(cfgMap, cfgMap', ConfigFileIdentity,
                              IF op = "CreateConfigFile" THEN ConfigFileIdentity(req) ELSE req)
      ]_vars

\* C17: devices of distinct identities do not interfere: CreateDevice of an
\* identity of which no record is stored succeeds, whatever else is stored; a
\* successful GetDevice returns a record of the requested identity; and
\* DeleteDevice leaves every record of another identity stored as it was.
C17_DistinctIdentitiesIndependent ==
    [][\A p \in Callers :
        /\ BodyStep(p, "CreateDevice") =>
            (StoredDevices(devMap, DeviceIdentity(last'.req)) = {} =>
                /\ last'.err = ErrNil
                /\ OthersKept(devMap, devMap', DeviceIdentity, DeviceIdentity(last'.req)))
        /\ (BodyStep(p, "GetDevice") /\ last'.err = ErrNil) =>
            DeviceIdentity(last'.val) = last'.req
        /\ BodyStep(p, "DeleteDevice") =>
            OthersKept(devMap, devMap', DeviceIdentity, last'.req)
      ]_vars

\* C18: every stored record is filed under the key of its own identity
\* fields, so a successful Get returns a record of the requested identity,
\* and every volume ListVolumes reports can be found by GetVolume with the
\* volume's own (ServiceUUID, VolumeID).
C18_RecordsFiledUnderOwnKey ==
    /\ \A k \in DOMAIN devMap : DevKey(devMap[k].ClusterName, devMap[k].DeviceName) = k
    /\ \A k \in DOMAIN svcMap : SvcKey(svcMap[k].ClusterName, svcMap[k].ServiceName) = k
    /\ \A k \in DOMAIN svcAttrMap : svcAttrMap[k].ServiceUUID = k
    /\ \A k \in DOMAIN volMap : VolKey(volMap[k].ServiceUUID, volMap[k].VolumeID) = k
    /\ \A k \in DOMAIN cfgMap : CfgKey(cfgMap[k].ServiceUUID, cfgMap[k].FileID) = k
    /\ (AtReturn("GetVolume") /\ last.err = ErrNil) => VolumeIdentity(last.val) = last.req
    /\ (AtReturn("GetServiceAttr") /\ last.err = ErrNil) =>
            ServiceAttrIdentity(last.val) = last.req
    /\ AtReturn("ListVolumes") =>
            \A i \in 1..Len(last.val) :
                /\ Has(volMap, VolKey(last.val[i].ServiceUUID, last.val[i].VolumeID))
                /\ VolumeIdentity(volMap[VolKey(last.val[i].ServiceUUID, last.val[i].VolumeID)])
                        = VolumeIdentity(last.val[i])

\* dnsName is a member name of domainName: a prefix that is not empty, then
\* ".", then domainName
MemberOf(dnsName, domainName) ==
    \E n \in 1..Len(dnsName) :
        dnsName = SubSeq(dnsName, 1, n) \o dnsNameSeparator \o domainName

\* C19: whenever RegisterDNSName has called the DNS provider, dnsName is a
\* member name of domainName, and every record of a zone is the record of a
\* member name of the domain of the zone.
C19_RegisteredAtLabelBoundary ==
    /\ dnsLast.calls # <<>> => MemberOf(dnsLast.req.dnsName, dnsLast.req.domainName)
    /\ \A r \in DOMAIN records : MemberOf(r[2], r[1][1])

\* C20: for a cluster name and a member name without ".", the domain is the
\* cluster name followed by "-openmanage.com", the DNS name is the member
\* name, "." and the domain, GetDomainNameFromDNSName of the DNS name
\* succeeds and gives the domain back, and RegisterDNSName with that domain
\* and DNS name does not return DomainNotFound.
C20_NamingRoundTrip ==
    (call.fn = "GenDNSName" /\ call.done
        /\ Dots(call.args[1]) = {} /\ Dots(call.args[2]) = {}) =>
        LET svcMemberName == call.args[1]
            clusterName == call.args[2]
            domainName == clusterName \o <<"-", "o", "p", "e", "n", "m", "a", "n", "a", "g", "e",
                                           ".", "c", "o", "m">>
        IN
        /\ call.res.domainName = domainName
        /\ call.res.dnsName = svcMemberName \o <<".">> \o domainName
        /\ call.res.extracted = [domain |-> domainName, err |-> ErrNil]
        /\ dnsLast.req = [domainName |-> call.res.domainName, dnsName |-> call.res.dnsName,
                          serverInfo |-> dnsLast.req.serverInfo]
        /\ dnsLast.err # ErrDomainNotFound
        /\ dnsLast.calls # <<>>

\* C20 witness: the names of a member and a cluster, neither empty nor with a
\* ".", have made the round trip and the DNS name has been registered.
C20_Witness ==
    /\ call.fn = "GenDNSName"
    /\ call.done
    /\ Dots(call.args[1]) = {} /\ Len(call.args[1]) = MaxLabelLen
    /\ Dots(call.args[2]) = {} /\ Len(call.args[2]) = MaxLabelLen
    /\ call.res.extracted.err = ErrNil
    /\ call.res.extracted.domain = call.res.domainName
    /\ dnsLast.err = ErrNil
    /\ records # EmptyMap

\* the callers inside the critical section: past Lock, Unlock pending
Inside == {p \in Callers : pc[p] \in {"locked", "ret"}}

\* C21: the mutex is locked exactly while a caller is inside an operation
\* and at most one caller is; the maps are read and written (an operation
\* body runs) only by the caller that holds the mutex; a caller that has
\* returned, with an error or without, releases the mutex; and with fair
\* scheduling every operation that was called completes, so in the end all
\* the callers are idle and the mutex is free.
C21_LockDiscipline ==
    /\ [](Cardinality(Inside) <= 1 /\ (mlock <=> Inside # {}))
    /\ [][(storeVars' # storeVars \/ last' # last) =>
            \E p \in Callers : pc[p] = "locked" /\ mlock /\ pc'[p] = "ret" /\ mlock']_vars
    /\ [][\A p \in Callers :
            (pc[p] = "ret" /\ pc'[p] # "ret") => (pc'[p] = "idle" /\ ~mlock')]_vars
    /\ \A p \in Callers : (pc[p] # "idle") ~> (pc[p] = "idle")
    /\ <>[](\A p \in Callers : pc[p] = "idle" /\ ~mlock)

\* C21 witness: one caller waits for the mutex while the other, whose
\* operation has returned an error, has not released it yet.
C21_Witness ==
    \E p, q \in Callers :
        /\ pc[p] = "waiting"
        /\ pc[q] = "ret"
        /\ last.err # ErrNil
        /\ mlock

====
